---- MODULE Spec2Model ----
(***************************************************************************)
(* Model of tools/generate_ai_previews.py: main() enumerates the files of  *)
(* the tree, builds one record per file (preview, optional converted       *)
(* sub-record), writes a preview file per record and, after the loop, the  *)
(* two aggregate files.                                                    *)
(*                                                                         *)
(* A Python str is a sequence of one-character strings, a bytes object a   *)
(* sequence of byte values, a dict a function on its keys.  The result of  *)
(* a call that can raise carries a field raised; main() has no try/except  *)
(* but the one around p.stat(), so a raise inside the loop leaves main().  *)
(*                                                                         *)
(* The record keys sha1, mime, is_lfs_pointer and scanned_at carry no      *)
(* control flow apart from the raise of file_sha1, which is modelled; the  *)
(* keys themselves are left out of the modelled record.                    *)
(***************************************************************************)
EXTENDS Integers, Sequences, FiniteSets, TLC

VARIABLES
    tree,          \* paths of the files of the working tree when main() starts
    pc,            \* position of main(): start, enumerate, loop, flush, done, failed
    exc,           \* the call whose exception left main(), "none" while none did
    git,           \* result p of run('git ls-files -z') in git_tracked_files
    files,         \* files, the list main() iterates over
    idx,           \* 1-based position of the for loop in files
    skipped,       \* positions of the files whose p.stat() raised (continue)
    lastRun,       \* tool outcomes behind the converted sub-record appended last
    metadata,      \* metadata, the list of records
    ndjson_lines,  \* ndjson_lines, the list of serialised records
    previewDir,    \* files of ai-previews/preview: file name -> record written
    convertedDir,  \* files under ai-previews/converted: path -> what was written
    jsonFile,      \* ai-file-metadata.json: <<>> if not written, else <<array>>
    ndjsonFile,    \* ai-file-metadata.ndjson: <<>> if not written, else <<text>>
    printed        \* the count printed by the last line of main(): <<>> or <<n>>

vars == <<tree, pc, exc, git, files, idx, skipped, lastRun, metadata,
          ndjson_lines, previewDir, convertedDir, jsonFile, ndjsonFile, printed>>

----------------------------------------------------------------------------
\* Bounds of the model.

\* largest number of files in the tree
MaxFiles == 2

\* largest number of tables sqlite3 lists for a database
MaxTables == 1

----------------------------------------------------------------------------
\* Tunables (module level, read from the environment).

\* MAX_PREVIEW_BYTES as set in the environment of the modelled runs
MAX_PREVIEW_BYTES == 104

BIG_FILE_THRESHOLD == 1048576

\* PREVIEW_HEX_BYTES as set in the environment of the modelled runs
PREVIEW_HEX_BYTES == 4

\* splitlines(True)[:100] in preview_text
PREVIEW_LINE_CAP == 100

\* entry['preview_text'][:50] in main
BIG_FILE_LINE_CAP == 50

----------------------------------------------------------------------------
\* Strings and lists.

Range(s) == {s[i] : i \in DOMAIN s}

\* s[:n]
Take(s, n) == SubSeq(s, 1, IF n < Len(s) THEN n ELSE Len(s))

\* s.startswith(pre)
StartsWith(s, pre) == Len(s) >= Len(pre) /\ SubSeq(s, 1, Len(pre)) = pre

\* s.endswith(suf)
EndsWith(s, suf) ==
    Len(s) >= Len(suf) /\ SubSeq(s, Len(s) - Len(suf) + 1, Len(s)) = suf

\* s.replace(c, by) for a one-character c
RECURSIVE Replace(_, _, _)
Replace(s, c, by) ==
    IF s = <<>> THEN <<>>
    ELSE (IF Head(s) = c THEN by ELSE <<Head(s)>>) \o Replace(Tail(s), c, by)

UpperCase == <<"A", "B", "C", "D", "E", "F", "G", "H", "I", "J", "K", "L", "M",
               "N", "O", "P", "Q", "R", "S", "T", "U", "V", "W", "X", "Y", "Z">>

LowerCase == <<"a", "b", "c", "d", "e", "f", "g", "h", "i", "j", "k", "l", "m",
               "n", "o", "p", "q", "r", "s", "t", "u", "v", "w", "x", "y", "z">>

\* f.lower()
Lower(s) ==
    [i \in 1..Len(s) |->
        IF \E k \in 1..26 : UpperCase[k] = s[i]
        THEN LowerCase[CHOOSE k \in 1..26 : UpperCase[k] = s[i]]
        ELSE s[i]]

\* position of the last "/" of s, 0 if there is none
LastSlash(s) ==
    IF \E i \in 1..Len(s) : s[i] = "/"
    THEN CHOOSE i \in 1..Len(s) :
            s[i] = "/" /\ \A j \in (i + 1)..Len(s) : s[j] # "/"
    ELSE 0

\* Path(f).name
Name(s) == SubSeq(s, LastSlash(s) + 1, Len(s))

\* a / b for paths
Slash(a, b) == a \o <<"/">> \o b

----------------------------------------------------------------------------
\* Output locations, relative to ROOT.

OUT == <<"a", "i", "-", "p", "r", "e", "v", "i", "e", "w", "s">>

CONVERTED == Slash(OUT, <<"c", "o", "n", "v", "e", "r", "t", "e", "d">>)

PREVIEW == Slash(OUT, <<"p", "r", "e", "v", "i", "e", "w">>)

----------------------------------------------------------------------------
\* The trees of the model: the paths a tree is drawn from, in the byte order
\* in which `git ls-files` lists them.

PathUniverse == <<
    <<".", "g", "i", "t", "/", "c">>,
    <<".", "g", "i", "t", "h", "u", "b", "/", "w">>,
    <<"T", ".", "G", "P", "X">>,
    <<"a", "/", "b">>,
    <<"a", "_", "_", "b">>,
    <<"a", "i", "-", "p", "r", "e", "v", "i", "e", "w", "s", "/", "p">>,
    <<"d", "/", "m", ".", "m", "b", "t", "i", "l", "e", "s">>,
    <<"m", ".", "m", "b", "t", "i", "l", "e", "s">>,
    <<"x", ".", "d", "b">> >>

Trees == {t \in SUBSET Range(PathUniverse) : Cardinality(t) <= MaxFiles}

\* p lies under the top-level directory d
UnderDir(p, d) == StartsWith(p, d \o <<"/">>)

GitDir == <<".", "g", "i", "t">>

\* the paths of t in listing order
Listed(t) == SelectSeq(PathUniverse, LAMBDA p : p \in t)

\* the results run('git ls-files -z') can have on tree t: the tracked files
\* (git never lists its own metadata directory), or a failure with no output
GitResults(t) ==
    { [returncode |-> 0,
       stdout |-> SelectSeq(Listed(t), LAMBDA p : ~UnderDir(p, GitDir))],
      [returncode |-> 128, stdout |-> <<>>] }

----------------------------------------------------------------------------
\* git_tracked_files

\* the root os.walk('.') reports for the directory holding p
WalkRoot(p) ==
    IF LastSlash(p) = 0 THEN <<".">>
    ELSE <<".", "/">> \o SubSeq(p, 1, LastSlash(p) - 1)

\* os.walk('.') is top-down: the files of '.' come before those of its
\* subdirectories
WalkOrder(t) ==
    SelectSeq(Listed(t), LAMBDA p : WalkRoot(p) = <<".">>)
        \o SelectSeq(Listed(t), LAMBDA p : WalkRoot(p) # <<".">>)

\* the test that makes the walk skip a root
WalkSkips(root) ==
    \/ StartsWith(root, <<".", "/", ".", "g", "i", "t">>)
    \/ StartsWith(root, <<".", "/", "a", "i", "-", "p", "r", "e", "v", "i", "e", "w", "s">>)

\* os.path.join(root, fn), with a leading './' removed
WalkPath(root, fn) ==
    LET path == Slash(root, fn)
    IN  IF StartsWith(path, <<".", "/">>) THEN SubSeq(path, 3, Len(path))
        ELSE path

\* the fallback walk of git_tracked_files
FallbackWalk(t) ==
    LET kept == SelectSeq(WalkOrder(t), LAMBDA p : ~WalkSkips(WalkRoot(p)))
    IN  [i \in 1..Len(kept) |-> WalkPath(WalkRoot(kept[i]), Name(kept[i]))]

git_tracked_files(p, t) ==
    IF p.returncode = 0 /\ p.stdout # <<>> THEN p.stdout
    ELSE FallbackWalk(t)

----------------------------------------------------------------------------
\* The files of the model: what stat and a read of the first bytes give.

\* the first MAX_PREVIEW_BYTES bytes of a text file of one-byte lines: "\n\n..."
TextPrefix == [i \in 1..MAX_PREVIEW_BYTES |-> 10]

\* the first MAX_PREVIEW_BYTES bytes of a file that starts with a null byte
BinaryPrefix == [i \in 1..MAX_PREVIEW_BYTES |-> IF i = 1 THEN 0 ELSE 10]

\* the files that are longer than BIG_FILE_THRESHOLD; the others are exactly
\* BIG_FILE_THRESHOLD long
LargeFiles ==
    { <<".", "g", "i", "t", "h", "u", "b", "/", "w">>,
      <<"T", ".", "G", "P", "X">>,
      <<"a", "/", "b">>,
      <<"d", "/", "m", ".", "m", "b", "t", "i", "l", "e", "s">> }

\* the files whose content is binary: the SQLite databases and tile packages
BinaryFiles ==
    { <<"d", "/", "m", ".", "m", "b", "t", "i", "l", "e", "s">>,
      <<"m", ".", "m", "b", "t", "i", "l", "e", "s">>,
      <<"x", ".", "d", "b">> }

\* st_size of file f and the bytes fh.read(MAX_PREVIEW_BYTES) returns
FileState(f) ==
    [size |-> IF f \in LargeFiles THEN BIG_FILE_THRESHOLD + 1 ELSE BIG_FILE_THRESHOLD,
     content |-> IF f \in BinaryFiles THEN BinaryPrefix ELSE TextPrefix]

\* what preview_text meets on file f: its own stat and open can fail
PreviewEnvs(f) ==
    { [statOk |-> TRUE, openOk |-> TRUE, size |-> FileState(f).size,
       content |-> FileState(f).content],
      [statOk |-> TRUE, openOk |-> FALSE, size |-> FileState(f).size,
       content |-> <<>>],
      [statOk |-> FALSE, openOk |-> FALSE, size |-> FileState(f).size,
       content |-> <<>>] }

----------------------------------------------------------------------------
\* preview_text

\* number of leading bytes the binary test looks at
BINARY_SNIFF_BYTES == 200

\* chunk.decode('utf-8', errors='replace') on single-byte input
Decode(chunk) == [i \in 1..Len(chunk) |-> IF chunk[i] > 127 THEN 65533 ELSE chunk[i]]

\* text.splitlines(True), for the "\n" terminator: a line ends at each "\n"
\* and at the end of the text
SplitLines(text) ==
    LET ends == {i \in 1..Len(text) : text[i] = 10 \/ i = Len(text)}
        EndOf(k) == CHOOSE e \in ends : Cardinality({x \in ends : x <= e}) = k
    IN  [k \in 1..Cardinality(ends) |->
            SubSeq(text, IF k = 1 THEN 1 ELSE EndOf(k - 1) + 1, EndOf(k))]

\* bytes.hex(): two hexadecimal digits per byte
RECURSIVE Hex(_)
Hex(bytes) ==
    IF bytes = <<>> THEN <<>>
    ELSE <<Head(bytes) \div 16, Head(bytes) % 16>> \o Hex(Tail(bytes))

\* preview_text with an except clause that records nothing
preview_text_SilentExcept(pv) ==
    IF ~pv.statOk THEN <<>>
    ELSE IF ~pv.openOk THEN [size |-> pv.size]
    ELSE LET chunk == Take(pv.content, MAX_PREVIEW_BYTES)
         IN  IF \A i \in 1..Len(chunk) : chunk[i] # 0 /\ chunk[i] <= 127
             THEN [size |-> pv.size,
                   preview_text |-> Take(SplitLines(Decode(chunk)), PREVIEW_LINE_CAP)]
             ELSE [size |-> pv.size,
                   preview_hex |-> Hex(Take(chunk, PREVIEW_HEX_BYTES))]

\* each assignment to out[...] is one more key; the except clause of the
\* source covers the whole body, so the call returns a dict in every case
preview_text(pv) ==
    IF ~pv.statOk THEN [preview_error |-> "str(e)"]
    ELSE IF ~pv.openOk THEN [size |-> pv.size, preview_error |-> "str(e)"]
    ELSE LET chunk == Take(pv.content, MAX_PREVIEW_BYTES)
             zeros == Cardinality({i \in 1..Len(chunk) : chunk[i] = 0})
             binary == \/ zeros > 0
                       \/ \E i \in 1..Len(Take(chunk, BINARY_SNIFF_BYTES)) :
                             chunk[i] > 127
         IN  IF ~binary
             THEN [size |-> pv.size,
                   preview_text |-> Take(SplitLines(Decode(chunk)), PREVIEW_LINE_CAP)]
             ELSE [size |-> pv.size,
                   preview_hex |-> Hex(Take(chunk, PREVIEW_HEX_BYTES))]

\* preview_text on each file of the model
PreviewOf == [pv \in UNION {PreviewEnvs(f) : f \in Range(PathUniverse)} |-> preview_text(pv)]

\* file_sha1 has no try/except: a failing open raises
file_sha1(openOk) ==
    IF openOk THEN [raised |-> FALSE, value |-> "hexdigest"]
    ELSE [raised |-> TRUE, exc |-> "file_sha1"]

----------------------------------------------------------------------------
\* The converters.  Each returns the dict (ret) and the files it left under
\* outdir (wrote: path -> the source file it was made from).  The body of each
\* is inside try/except Exception, so none raises.

\* name of the i-th table sqlite3 lists; odd ones carry a quote character
TableName(i) == [j \in 1..i |-> "t"] \o (IF i % 2 = 1 THEN <<"'">> ELSE <<>>)

\* outcomes of the sqlite3 commands of convert_sqlite: run() raises, the
\* listing exits non-zero, or it lists k tables and the export of table i
\* exits with exports[i]
SqliteRuns ==
    { [conv |-> "sqlite", raised |-> TRUE, returncode |-> 0,
       tables |-> <<>>, exports |-> <<>>],
      [conv |-> "sqlite", raised |-> FALSE, returncode |-> 1,
       tables |-> <<>>, exports |-> <<>>] }
    \cup UNION { { [conv |-> "sqlite", raised |-> FALSE, returncode |-> 0,
                     tables |-> [i \in 1..k |-> TableName(i)], exports |-> e] :
                        e \in [1..k -> {0, 1}] } : k \in 0..MaxTables }

\* outcomes for extract_mbtiles_metadata: run() raises, sqlite3 exits
\* non-zero, or it succeeds and open(outf, 'w') succeeds or raises
MbtilesRuns ==
    { [conv |-> "mbtiles", raised |-> TRUE, returncode |-> 0, openOk |-> FALSE],
      [conv |-> "mbtiles", raised |-> FALSE, returncode |-> 1, openOk |-> FALSE],
      [conv |-> "mbtiles", raised |-> FALSE, returncode |-> 0, openOk |-> FALSE],
      [conv |-> "mbtiles", raised |-> FALSE, returncode |-> 0, openOk |-> TRUE] }

\* outcomes for convert_gpx_kml: run() raises or ogr2ogr exits with returncode
GpxKmlRuns ==
    { [conv |-> "gpx_kml", raised |-> TRUE, returncode |-> 0],
      [conv |-> "gpx_kml", raised |-> FALSE, returncode |-> 1],
      [conv |-> "gpx_kml", raised |-> FALSE, returncode |-> 0] }

Made(paths, src) == [a \in paths |-> [src |-> src]]

\* t.replace('"','').replace("'",'')
SafeTable(t) == Replace(Replace(t, "\"", <<>>), "'", <<>>)

CsvOut(path, outdir, t) ==
    Slash(outdir, Name(path) \o <<"_", "_">> \o SafeTable(t)
                    \o <<".", "c", "s", "v">>)

\* convert_sqlite without its try/except: an exception of run() leaves it
convert_sqlite_Unguarded(path, outdir, t) ==
    IF t.raised
    THEN [raised |-> TRUE, ret |-> <<>>, wrote |-> <<>>]
    ELSE IF t.returncode # 0
    THEN [raised |-> FALSE, ret |-> [error |-> "sqlite-error", msg |-> "stderr"],
          wrote |-> <<>>]
    ELSE [raised |-> FALSE,
          ret |-> [tables |-> t.tables,
                   exported |-> SelectSeq([i \in 1..Len(t.tables) |->
                                              CsvOut(path, outdir, t.tables[i])],
                                          LAMBDA c : \E i \in 1..Len(t.tables) :
                                              /\ c = CsvOut(path, outdir, t.tables[i])
                                              /\ t.exports[i] = 0)],
          wrote |-> Made({CsvOut(path, outdir, t.tables[i]) :
                            i \in 1..Len(t.tables)}, path)]

convert_sqlite(path, outdir, t) ==
    IF t.raised
    THEN [raised |-> FALSE, ret |-> [error |-> "exception", msg |-> "str(e)"], wrote |-> <<>>]
    ELSE IF t.returncode # 0
    THEN [raised |-> FALSE, ret |-> [error |-> "sqlite-error", msg |-> "stderr"], wrote |-> <<>>]
    ELSE LET n == Len(t.tables)
             ok == SelectSeq([i \in 1..n |-> i], LAMBDA i : t.exports[i] = 0)
         IN  [raised |-> FALSE, ret |-> [tables |-> t.tables,
                       exported |-> [j \in 1..Len(ok) |->
                                        CsvOut(path, outdir, t.tables[ok[j]])]],
              \* the shell's redirection creates csv_out whatever sqlite3 does
              wrote |-> Made({CsvOut(path, outdir, t.tables[i]) : i \in 1..n}, path)]

extract_mbtiles_metadata(path, outdir, t) ==
    LET outf == Slash(outdir, Name(path)
                    \o <<".", "m", "e", "t", "a", "d", "a", "t", "a", ".", "t", "x", "t">>)
    IN  IF t.raised
        THEN [raised |-> FALSE, ret |-> [error |-> "exception", msg |-> "str(e)"], wrote |-> <<>>]
        ELSE IF t.returncode # 0
        THEN [raised |-> FALSE, ret |-> [error |-> "mbtiles-sqlite-error", msg |-> "stderr"],
              wrote |-> <<>>]
        ELSE IF ~t.openOk
        THEN [raised |-> FALSE, ret |-> [error |-> "exception", msg |-> "str(e)"], wrote |-> <<>>]
        ELSE [raised |-> FALSE, ret |-> [metadata |-> outf], wrote |-> Made({outf}, path)]

convert_gpx_kml(path, outdir, t) ==
    LET outf == Slash(outdir, Name(path) \o <<".", "g", "e", "o", "j", "s", "o", "n">>)
    IN  IF t.raised
        THEN [raised |-> FALSE, ret |-> [error |-> "exception", msg |-> "str(e)"], wrote |-> <<>>]
        ELSE IF t.returncode = 0
        THEN [raised |-> FALSE, ret |-> [geojson |-> outf], wrote |-> Made({outf}, path)]
        ELSE [raised |-> FALSE, ret |-> [error |-> "ogr2ogr-failed", msg |-> "stderr"], wrote |-> <<>>]

\* the branch of main()'s if/elif chain on lower = f.lower()
Converter(f) ==
    LET lower == Lower(f)
    IN  IF EndsWith(lower, <<".", "d", "b">>)
           \/ EndsWith(lower, <<".", "s", "q", "l", "i", "t", "e">>)
        THEN "sqlite"
        ELSE IF EndsWith(lower, <<".", "m", "b", "t", "i", "l", "e", "s">>)
        THEN "mbtiles"
        ELSE IF EndsWith(lower, <<".", "g", "p", "x">>)
                \/ EndsWith(lower, <<".", "k", "m", "l">>)
        THEN "gpx_kml"
        ELSE "none"

\* outdir = CONVERTED / p.name
OutDir(f) == Slash(CONVERTED, Name(f))

NoRun == [conv |-> "none"]

ToolRuns(conv) ==
    CASE conv = "sqlite" -> SqliteRuns
      [] conv = "mbtiles" -> MbtilesRuns
      [] conv = "gpx_kml" -> GpxKmlRuns
      [] OTHER -> {NoRun}

\* converted_info and the files written, {} for an unrecognised extension
Convert(f, t) ==
    CASE t.conv = "sqlite" -> convert_sqlite(f, OutDir(f), t)
      [] t.conv = "mbtiles" -> extract_mbtiles_metadata(f, OutDir(f), t)
      [] t.conv = "gpx_kml" -> convert_gpx_kml(f, OutDir(f), t)
      [] OTHER -> [raised |-> FALSE, ret |-> <<>>, wrote |-> <<>>]

----------------------------------------------------------------------------
\* write_preview and the serialisation of the aggregates

\* outf of write_preview
PreviewFile(path) ==
    Slash(PREVIEW, Replace(path, "/", <<"_", "_">>) \o <<".", "j", "s", "o", "n">>)

\* json.dumps(entry, ensure_ascii=False): compact, so the text of one record
\* holds no line break; a text is a sequence of tokens
Dumps(entry) == <<[tok |-> "obj", val |-> entry]>>

NewlineTok == [tok |-> "nl", val |-> <<>>]

\* '\n'.join(lines) written as ''.join(lines)
RECURSIVE JoinLines_NoSeparator(_)
JoinLines_NoSeparator(lines) ==
    IF lines = <<>> THEN <<>>
    ELSE lines[1] \o JoinLines_NoSeparator(Tail(lines))

\* '\n'.join(lines)
RECURSIVE JoinLines(_)
JoinLines(lines) ==
    IF lines = <<>> THEN <<>>
    ELSE IF Len(lines) = 1 THEN lines[1]
    ELSE lines[1] \o <<NewlineTok>> \o JoinLines(Tail(lines))

\* the lines of a text: the reader's view of the line-delimited stream
RECURSIVE LinesOf(_)
LinesOf(text) ==
    IF text = <<>> THEN <<>>
    ELSE LET n == IF \E i \in 1..Len(text) : text[i].tok = "nl"
                  THEN CHOOSE i \in 1..Len(text) :
                          /\ text[i].tok = "nl"
                          /\ \A j \in 1..(i - 1) : text[j].tok # "nl"
                  ELSE Len(text) + 1
         IN  <<SubSeq(text, 1, n - 1)>>
                \o (IF n >= Len(text) THEN <<>>
                    ELSE LinesOf(SubSeq(text, n + 1, Len(text))))

\* write_preview(p, entry): the preview directory after the write
write_preview(dir, path, meta) == (PreviewFile(path) :> meta) @@ dir

\* an append that leaves out the records whose preview failed
AppendRecord_SkipErrors(list, entry) ==
    IF "preview_error" \in DOMAIN entry THEN list ELSE Append(list, entry)

\* metadata.append(entry)
AppendRecord(list, entry) == Append(list, entry)

\* main() without its second truncation
Truncate_Never(entry) == entry

\* lines 193-194 of main(): the second truncation
Truncate(entry) ==
    IF (IF "size" \in DOMAIN entry THEN entry.size ELSE 0) > BIG_FILE_THRESHOLD
       /\ "preview_text" \in DOMAIN entry
    THEN [entry EXCEPT !.preview_text = Take(entry.preview_text, BIG_FILE_LINE_CAP)]
    ELSE entry

----------------------------------------------------------------------------
\* One iteration of the for loop of main().

\* what one iteration meets: stat raises; or the open of file_sha1 raises;
\* or outdir.mkdir raises; or the body runs to write_preview
LoopEnvs(f) ==
    { [statOk |-> FALSE], [statOk |-> TRUE, hashOk |-> FALSE] }
    \cup { [statOk |-> TRUE, hashOk |-> TRUE, pv |-> pv, mkdirOk |-> FALSE] :
            pv \in {e \in PreviewEnvs(f) : Converter(f) # "none"} }
    \cup { [statOk |-> TRUE, hashOk |-> TRUE, pv |-> pv, mkdirOk |-> TRUE,
            tool |-> t, writeOk |-> w] :
            pv \in PreviewEnvs(f), t \in ToolRuns(Converter(f)), w \in BOOLEAN }

Raise(name, wrote) == [kind |-> "raise", exc |-> name, wrote |-> wrote]

\* the body from entry = {...} on, after p.stat() succeeded
Body(f, env) ==
    IF file_sha1(env.hashOk).raised THEN Raise("file_sha1", <<>>)
    ELSE
    LET entry0 == [path |-> f, size |-> env.pv.size]
        \* entry.update(pv)
        entry1 == PreviewOf[env.pv] @@ entry0
    IN  IF Converter(f) # "none" /\ ~env.mkdirOk
        THEN Raise("outdir.mkdir", <<>>)
        ELSE
        LET conv == Convert(f, env.tool)
        IN  IF conv.raised THEN Raise(env.tool.conv, conv.wrote)
        ELSE
        LET \* if converted_info: entry['converted'] = converted_info
            entry2 == IF conv.ret # <<>>
                      THEN ("converted" :> conv.ret) @@ entry1
                      ELSE entry1
            entry == Truncate(entry2)
        IN  IF ~env.writeOk
            THEN Raise("write_preview", conv.wrote)
            ELSE [kind |-> "append", entry |-> entry,
                  wrote |-> conv.wrote, run |-> env.tool]

\* a loop that records a failing p.stat() instead of skipping the file
LoopBody_RecordsStatError(f, env) ==
    IF ~env.statOk
    THEN [kind |-> "append", entry |-> [path |-> f, preview_error |-> "str(e)"],
          wrote |-> <<>>, run |-> NoRun]
    ELSE Body(f, env)

\* try: st = p.stat() / except Exception: continue
LoopBody(f, env) ==
    IF ~env.statOk THEN [kind |-> "continue"]
    ELSE Body(f, env)

Init ==
    /\ tree \in Trees
    /\ pc = "start"
    /\ exc = "none"
    /\ git = [returncode |-> 0, stdout |-> <<>>]
    /\ files = <<>>
    /\ idx = 1
    /\ skipped = {}
    /\ lastRun = NoRun
    /\ metadata = <<>>
    /\ ndjson_lines = <<>>
    /\ previewDir = <<>>
    /\ convertedDir = <<>>
    /\ jsonFile = <<>>
    /\ ndjsonFile = <<>>
    /\ printed = <<>>

\* ensure_dirs(): a mkdir that raises leaves main()
EnsureDirs ==
    /\ pc = "start"
    /\ \E ok \in BOOLEAN :
        /\ pc' = IF ok THEN "enumerate" ELSE "failed"
        /\ exc' = IF ok THEN "none" ELSE "ensure_dirs"
    /\ UNCHANGED <<tree, git, files, idx, skipped, lastRun, metadata,
                   ndjson_lines, previewDir, convertedDir, jsonFile,
                   ndjsonFile, printed>>

\* files = git_tracked_files()
Enumerate ==
    /\ pc = "enumerate"
    /\ \E p \in GitResults(tree) :
        /\ git' = p
        /\ files' = git_tracked_files(p, tree)
    /\ pc' = "loop"
    /\ UNCHANGED <<tree, exc, idx, skipped, lastRun, metadata, ndjson_lines,
                   previewDir, convertedDir, jsonFile, ndjsonFile, printed>>

\* one pass through the body of `for f in files`
ProcessFile ==
    /\ pc = "loop"
    /\ idx <= Len(files)
    /\ \E env \in LoopEnvs(files[idx]) :
        LET f == files[idx]
            r == LoopBody(f, env)
        IN  /\ skipped' = IF env.statOk THEN skipped ELSE skipped \cup {idx}
            /\ CASE r.kind = "continue" ->
                    /\ idx' = idx + 1
                    /\ lastRun' = NoRun
                    /\ UNCHANGED <<pc, exc, metadata, ndjson_lines, previewDir,
                                   convertedDir>>
              [] r.kind = "raise" ->
                    /\ pc' = "failed"
                    /\ exc' = r.exc
                    /\ lastRun' = NoRun
                    /\ convertedDir' = r.wrote @@ convertedDir
                    /\ UNCHANGED <<idx, metadata, ndjson_lines, previewDir>>
              [] r.kind = "append" ->
                    /\ convertedDir' = r.wrote @@ convertedDir
                    /\ previewDir' = write_preview(previewDir, f, r.entry)
                    /\ metadata' = AppendRecord(metadata, r.entry)
                    /\ ndjson_lines' = Append(ndjson_lines, Dumps(r.entry))
                    /\ lastRun' = r.run
                    /\ idx' = idx + 1
                    /\ UNCHANGED <<pc, exc>>
    /\ UNCHANGED <<tree, git, files, jsonFile, ndjsonFile, printed>>

\* the lines after the loop: the two aggregate files, then the summary; the
\* open of either file can raise and end main()
Flush ==
    /\ pc = "loop"
    /\ idx > Len(files)
    /\ \E failing \in {"none", "open(ai-file-metadata.json)",
                       "open(ai-file-metadata.ndjson)"} :
        /\ exc' = failing
        /\ pc' = IF failing = "none" THEN "done" ELSE "failed"
        /\ jsonFile' = IF failing = "open(ai-file-metadata.json)"
                       THEN jsonFile ELSE <<metadata>>
        /\ ndjsonFile' = IF failing = "none" THEN <<JoinLines(ndjson_lines)>>
                         ELSE ndjsonFile
        /\ printed' = IF failing = "none" THEN <<Len(metadata)>> ELSE printed
    /\ UNCHANGED <<tree, git, files, idx, skipped, lastRun, metadata,
                   ndjson_lines, previewDir, convertedDir>>

Next ==
    \/ EnsureDirs
    \/ Enumerate
    \/ ProcessFile
    \/ Flush

Spec == Init /\ [][Next]_vars

----------------------------------------------------------------------------
\* Properties.

PreviewKeys == {"preview_text", "preview_hex", "preview_error"}

\* the calls inside the loop body that are outside every try/except
PerFileCalls == {"file_sha1", "outdir.mkdir", "write_preview"}

ConverterCalls == {"sqlite", "mbtiles", "gpx_kml"}

\* every record the run has stored anywhere: in the lists, the preview files,
\* the aggregate array and the lines of the stream
StoredRecords ==
    Range(metadata)
        \cup {previewDir[n] : n \in DOMAIN previewDir}
        \cup {ndjson_lines[i][1].val : i \in DOMAIN ndjson_lines}
        \cup UNION {Range(jsonFile[k]) : k \in DOMAIN jsonFile}
        \cup UNION {{l[1].val : l \in Range(LinesOf(ndjsonFile[k]))} :
                        k \in DOMAIN ndjsonFile}

\* the run took the fallback walk of git_tracked_files
FallbackTaken ==
    /\ pc \in {"loop", "done"}
    /\ ~(git.returncode = 0 /\ git.stdout # <<>>)

\* the artifact paths a converted sub-record lists
Artifacts(entry) ==
    IF "converted" \notin DOMAIN entry THEN {}
    ELSE LET c == entry.converted
         IN  (IF "exported" \in DOMAIN c THEN Range(c.exported) ELSE {})
                \cup (IF "metadata" \in DOMAIN c THEN {c.metadata} ELSE {})
                \cup (IF "geojson" \in DOMAIN c THEN {c.geojson} ELSE {})

\* the files of the enumeration whose p.stat() did not raise, in order
NotSkipped ==
    LET kept == SelectSeq([i \in 1..Len(files) |-> i], LAMBDA i : i \notin skipped)
    IN  [k \in 1..Len(kept) |-> files[kept[k]]]

\* C1: no failure met while processing one file ends the run: main() is never
\* left by an exception of file_sha1, of outdir.mkdir or of write_preview.
C1_NoPerFileAbort == ~(pc = "failed" /\ exc \in PerFileCalls)

\* C2: every record holds exactly one of preview_text, preview_hex and
\* preview_error, in the lists, the preview files and the aggregates.
C2_ExactlyOnePreviewKey ==
    \A r \in StoredRecords : Cardinality(DOMAIN r \cap PreviewKeys) = 1

\* C2 witness: a finished run stored a record whose preview failed and a
\* truncated text record.
C2_Witness ==
    /\ pc = "done"
    /\ \E i, j \in DOMAIN metadata :
        /\ "preview_error" \in DOMAIN metadata[i]
        /\ "preview_text" \in DOMAIN metadata[j]
        /\ Len(metadata[j].preview_text) = BIG_FILE_LINE_CAP

\* the record of preview file n is in both aggregate files
InBothAggregates(n) ==
    /\ jsonFile # <<>>
    /\ ndjsonFile # <<>>
    /\ \E i \in DOMAIN jsonFile[1] : jsonFile[1][i] = previewDir[n]
    /\ \E i \in DOMAIN LinesOf(ndjsonFile[1]) :
            /\ Len(LinesOf(ndjsonFile[1])[i]) = 1
            /\ LinesOf(ndjsonFile[1])[i][1].val = previewDir[n]

C4_OnePreviewPerRecord ==
    /\ Cardinality(DOMAIN previewDir) = Len(metadata)
    /\ \A i \in DOMAIN metadata :
        /\ PreviewFile(metadata[i].path) \in DOMAIN previewDir
        /\ previewDir[PreviewFile(metadata[i].path)] = metadata[i]

\* C5: the fallback walk returns exactly the files of the tree outside .git
\* and outside ai-previews.
C5_FallbackExact ==
    FallbackTaken =>
        Range(files) = {p \in tree : ~UnderDir(p, GitDir) /\ ~UnderDir(p, OUT)}

\* C6: a stored preview_text has at most 100 lines, and at most 50 when the
\* record's size exceeds BIG_FILE_THRESHOLD, in the preview file and in both
\* aggregates alike.
C6_LineCaps ==
    \A r \in StoredRecords :
        "preview_text" \in DOMAIN r =>
            /\ Len(r.preview_text) <= PREVIEW_LINE_CAP
            /\ (r.size > BIG_FILE_THRESHOLD
                    => Len(r.preview_text) <= BIG_FILE_LINE_CAP)

\* number of lines in the bytes read from a text file of the model
TextPrefixLines == Len(SplitLines(Decode(TextPrefix)))

\* C6 witness: a finished run stored a text record above the threshold cut to
\* 50 lines and one at the threshold cut to 100 lines, from files of more
\* than 100 lines.
C6_Witness ==
    /\ pc = "done"
    /\ TextPrefixLines > PREVIEW_LINE_CAP
    /\ \E n, m \in DOMAIN previewDir :
        /\ "preview_text" \in DOMAIN previewDir[n]
        /\ previewDir[n].size > BIG_FILE_THRESHOLD
        /\ Len(previewDir[n].preview_text) = BIG_FILE_LINE_CAP
        /\ "preview_text" \in DOMAIN previewDir[m]
        /\ previewDir[m].size = BIG_FILE_THRESHOLD
        /\ Len(previewDir[m].preview_text) = PREVIEW_LINE_CAP

\* C7: after a completed run the aggregate array and the stream hold the same
\* records in the same order, which is the enumeration order of the files
\* that were not skipped; each record is exactly one line of the stream; the
\* printed count is the number of records of both.
C7_AggregatesAgree ==
    pc = "done" =>
        LET array == jsonFile[1]
            lines == LinesOf(ndjsonFile[1])
        IN  /\ Len(lines) = Len(array)
            /\ \A i \in DOMAIN array : lines[i] = Dumps(array[i])
            /\ [i \in DOMAIN array |-> array[i].path] = NotSkipped
            /\ printed = <<Len(array)>>

\* C7 witness: a completed run of two records.
C7_Witness ==
    /\ pc = "done"
    /\ Len(jsonFile[1]) = 2
    /\ jsonFile[1][1] # jsonFile[1][2]

\* the record appended last carries the converted sub-record of lastRun
LastConverted == metadata[Len(metadata)].converted

\* C8 as stated: a tool invocation of a converter that raises or exits
\* non-zero, the listing and every per-table export included, gives an error
\* descriptor in converted, and never ends the run.
C8_EveryFailureIsAnErrorDescriptor ==
    /\ ~(pc = "failed" /\ exc \in ConverterCalls)
    /\ ( /\ lastRun.conv # "none"
         /\ \/ lastRun.raised
            \/ lastRun.returncode # 0
            \/ lastRun.conv = "sqlite" /\ \E i \in DOMAIN lastRun.exports :
                                              lastRun.exports[i] # 0 )
            => "error" \in DOMAIN LastConverted

\* C8 amended: no tool invocation of a converter ends the run; one that raises,
\* and a non-zero exit of the first command of a converter, give an error
\* descriptor in converted; a non-zero exit of a per-table export of
\* convert_sqlite gives none: converted lists the tables, and exported holds
\* the CSV of exactly the tables whose export exited with 0.
C8_FailuresReported ==
    /\ ~(pc = "failed" /\ exc \in ConverterCalls)
    /\ lastRun.conv # "none" =>
        /\ ((lastRun.raised \/ lastRun.returncode # 0)
                => "error" \in DOMAIN LastConverted)
        /\ (lastRun.conv = "sqlite" /\ ~lastRun.raised /\ lastRun.returncode = 0) =>
            /\ DOMAIN LastConverted = {"tables", "exported"}
            /\ LastConverted.tables = lastRun.tables
            /\ \A i \in DOMAIN lastRun.tables :
                (lastRun.exports[i] = 0) <=>
                    \E j \in DOMAIN LastConverted.exported :
                        LastConverted.exported[j] =
                            CsvOut(metadata[Len(metadata)].path,
                                   OutDir(metadata[Len(metadata)].path),
                                   lastRun.tables[i])

\* C8 witness: a completed run whose last record is a database whose table
\* listing succeeded and one of whose exports exited non-zero.
C8_Witness ==
    /\ pc = "done"
    /\ lastRun.conv = "sqlite"
    /\ ~lastRun.raised
    /\ lastRun.returncode = 0
    /\ \E i \in DOMAIN lastRun.exports : lastRun.exports[i] # 0
    /\ "tables" \in DOMAIN LastConverted

\* C9: a step in which p.stat() raises changes none of the record lists, the
\* preview files and the converted files, and moves the loop to the next file.
C9_StatFailureSkips ==
    [][skipped' # skipped =>
            /\ metadata' = metadata
            /\ ndjson_lines' = ndjson_lines
            /\ previewDir' = previewDir
            /\ convertedDir' = convertedDir
            /\ idx' = idx + 1
            /\ pc' = "loop"]_vars

\* C9 witness: a completed run that kept the record of its first file, skipped
\* its second file and holds no record and no preview file for it.
C9_Witness ==
    /\ pc = "done"
    /\ skipped = {2}
    /\ Len(jsonFile[1]) = 1
    /\ jsonFile[1][1].path = files[1]
    /\ PreviewFile(files[2]) \notin DOMAIN previewDir

\* C10: when the run ends, every artifact path a record's converted sub-record
\* lists holds the export made from that record's own file.
C10_ArtifactsNotOverwritten ==
    pc = "done" => \A i \in DOMAIN metadata :
        \A a \in Artifacts(metadata[i]) :
            /\ a \in DOMAIN convertedDir
            /\ convertedDir[a].src = metadata[i].path

====
